---------------------------- MODULE Spec2Model ----------------------------
(***************************************************************************)
(* Personal library manager (src/library_manager.py): one in-memory book   *)
(* list, mirrored to a primary and a backup JSON file on every save.       *)
(*                                                                         *)
(* Text (titles, authors, user input) is a sequence of one-character       *)
(* strings, so that lower(), strip(), int() and substring search are       *)
(* computed character by character.  A text file is a sequence of JSON     *)
(* lexical tokens, each token a text; json.dump and json.load are the      *)
(* serialiser and the parser over those tokens (insignificant whitespace   *)
(* of indent=4 is not represented).                                        *)
(***************************************************************************)
EXTENDS Integers, Sequences, FiniteSets, TLC

VARIABLES
    library,   \* self.library: the value json.load returned, then mutated
    primary,   \* the file self.filename ("library.json")
    backup,    \* the file self.backup_filename ("library_backup.json")
    pc,        \* where the process is: "menu", "add_year", "add_rest", "exited", "crashed"
    pend,      \* add_book's locals read so far (title, author, year)
    out,       \* what the last handler printed
    err        \* the exception that ended the process, "none" while it runs

vars == <<library, primary, backup, pc, pend, out, err>>

-----------------------------------------------------------------------------
(* Bounds of the model *)

\* add_book is explored while the list holds fewer than MaxBooks books
MaxBooks == 2

-----------------------------------------------------------------------------
(* Text: str.lower, str.strip, int(), the `in` substring test *)

UpperChars == <<"A","B","C","D","E","F","G","H","I","J","K","L","M",
                "N","O","P","Q","R","S","T","U","V","W","X","Y","Z">>

LowerChars == <<"a","b","c","d","e","f","g","h","i","j","k","l","m",
                "n","o","p","q","r","s","t","u","v","w","x","y","z">>

DigitChars == <<"0","1","2","3","4","5","6","7","8","9">>

\* the lower-case letter of each upper-case letter
ToLower ==
    [c \in {UpperChars[i] : i \in 1..Len(UpperChars)} |->
        LowerChars[CHOOSE i \in 1..Len(UpperChars) : UpperChars[i] = c]]

LowerChar(c) == IF c \in DOMAIN ToLower THEN ToLower[c] ELSE c

\* str.lower()
StrLower(s) == [i \in 1..Len(s) |-> LowerChar(s[i])]

IsSpace(c) == c = " "

\* str.strip(): drop leading and trailing whitespace
StrStrip(s) ==
    LET keep == {i \in 1..Len(s) : ~IsSpace(s[i])}
    IN  IF keep = {} THEN <<>>
        ELSE SubSeq(s, CHOOSE i \in keep : \A j \in keep : i <= j,
                       CHOOSE i \in keep : \A j \in keep : j <= i)

\* q in s
Contains(q, s) ==
    \E i \in 0..(Len(s) - Len(q)) : SubSeq(s, i + 1, i + Len(q)) = q

IsDigit(c) == \E i \in 1..Len(DigitChars) : DigitChars[i] = c

DigitVal(c) == (CHOOSE i \in 1..Len(DigitChars) : DigitChars[i] = c) - 1

RECURSIVE DigitsVal(_)
DigitsVal(s) ==
    IF s = <<>> THEN 0
    ELSE 10 * DigitsVal(SubSeq(s, 1, Len(s) - 1)) + DigitVal(s[Len(s)])

IsDigits(s) == s # <<>> /\ \A i \in 1..Len(s) : IsDigit(s[i])

\* int(s) succeeds: optional surrounding whitespace, optional sign, digits
IntOk(s) ==
    LET t == StrStrip(s)
    IN  /\ t # <<>>
        /\ IF t[1] \in {"+", "-"} THEN IsDigits(Tail(t)) ELSE IsDigits(t)

\* int(s) when it succeeds
IntVal(s) ==
    LET t == StrStrip(s)
    IN  IF t[1] = "-" THEN 0 - DigitsVal(Tail(t))
        ELSE IF t[1] = "+" THEN DigitsVal(Tail(t))
        ELSE DigitsVal(t)

\* str(n) of a non-negative integer, as json.dump writes an int
RECURSIVE NatText(_)
NatText(n) ==
    IF n < 10 THEN <<DigitChars[n + 1]>>
    ELSE Append(NatText(n \div 10), DigitChars[(n % 10) + 1])

IntText(n) == IF n < 0 THEN <<"-">> \o NatText(0 - n) ELSE NatText(n)

-----------------------------------------------------------------------------
(* JSON: json.dump(self.library, file, indent=4) and json.load(file) *)

Quote     == "\""
Backslash == "\\"

LBracket == <<"[">>
RBracket == <<"]">>
LBrace   == <<"{">>
RBrace   == <<"}">>
Comma    == <<",">>
Colon    == <<":">>
TrueTok  == <<"t","r","u","e">>
FalseTok == <<"f","a","l","s","e">>

\* the keys of a book dict, in the order add_book inserts them
KeyNames == <<"title", "author", "year", "genre", "read">>

KeyText(k) ==
    CASE k = "title"  -> <<"t","i","t","l","e">>
      [] k = "author" -> <<"a","u","t","h","o","r">>
      [] k = "year"   -> <<"y","e","a","r">>
      [] k = "genre"  -> <<"g","e","n","r","e">>
      [] k = "read"   -> <<"r","e","a","d">>

\* a JSON string body: " and \ are written behind a backslash
RECURSIVE Escape(_)
Escape(s) ==
    IF s = <<>> THEN <<>>
    ELSE (IF s[1] \in {Quote, Backslash} THEN <<Backslash, s[1]>> ELSE <<s[1]>>)
         \o Escape(Tail(s))

StringTok(s) == <<Quote>> \o Escape(s) \o <<Quote>>

BoolTok(b) == IF b THEN TrueTok ELSE FalseTok

\* the key of a member, as written
KeyTok == [k \in {"title", "author", "year", "genre", "read"} |-> StringTok(KeyText(k))]

\* one book dict: { "title": .., "author": .., "year": .., "genre": .., "read": .. }
DumpBook(b) ==
    <<LBrace,
      KeyTok["title"],  Colon, StringTok(b.title),  Comma,
      KeyTok["author"], Colon, StringTok(b.author), Comma,
      KeyTok["year"],   Colon, IntText(b.year),     Comma,
      KeyTok["genre"],  Colon, StringTok(b.genre),  Comma,
      KeyTok["read"],   Colon, BoolTok(b.read),
      RBrace>>

RECURSIVE DumpItems(_)
DumpItems(items) ==
    IF items = <<>> THEN <<>>
    ELSE IF Len(items) = 1 THEN DumpBook(items[1])
    ELSE DumpBook(items[1]) \o <<Comma>> \o DumpItems(Tail(items))

\* json.dump of the library value: a list of book dicts, or the empty dict
Dump(v) ==
    IF v.kind = "list" THEN <<LBracket>> \o DumpItems(v.items) \o <<RBracket>>
    ELSE <<LBrace, RBrace>>

\* the library values: [] and {}; a list holds its books in `items`
EmptyList == [kind |-> "list", items |-> <<>>]

EmptyDict == [kind |-> "dict", items |-> <<>>]

ParseFail == [ok |-> FALSE, val |-> <<>>, next |-> 0]

\* the text of a JSON string body; a backslash takes the next character with it
RECURSIVE Unescape(_)
Unescape(s) ==
    IF s = <<>> THEN [ok |-> TRUE, val |-> <<>>]
    ELSE IF s[1] = Quote THEN [ok |-> FALSE, val |-> <<>>]
    ELSE IF s[1] = Backslash
         THEN IF Len(s) < 2 \/ s[2] \notin {Quote, Backslash}
              THEN [ok |-> FALSE, val |-> <<>>]
              ELSE LET r == Unescape(SubSeq(s, 3, Len(s)))
                   IN  [ok |-> r.ok, val |-> <<s[2]>> \o r.val]
    ELSE LET r == Unescape(Tail(s))
         IN  [ok |-> r.ok, val |-> <<s[1]>> \o r.val]

IsStringTok(t) == Len(t) >= 2 /\ t[1] = Quote /\ t[Len(t)] = Quote

\* a string, an integer, true or false
ParseScalar(t) ==
    IF IsStringTok(t)
    THEN Unescape(SubSeq(t, 2, Len(t) - 1))
    ELSE IF IsDigits(t) THEN [ok |-> TRUE, val |-> DigitsVal(t)]
    ELSE IF Len(t) >= 2 /\ t[1] = "-" /\ IsDigits(Tail(t))
         THEN [ok |-> TRUE, val |-> 0 - DigitsVal(Tail(t))]
    ELSE IF t = TrueTok THEN [ok |-> TRUE, val |-> TRUE]
    ELSE IF t = FalseTok THEN [ok |-> TRUE, val |-> FALSE]
    ELSE [ok |-> FALSE, val |-> <<>>]

IsKeyText(s) == \E n \in 1..Len(KeyNames) : KeyText(KeyNames[n]) = s

KeyOf(s) == KeyNames[CHOOSE n \in 1..Len(KeyNames) : KeyText(KeyNames[n]) = s]

\* the members of an object from the key at toks[i] on; a repeated key keeps
\* its last value
RECURSIVE ParseMembers(_, _, _)
ParseMembers(toks, i, acc) ==
    IF i + 3 > Len(toks) THEN ParseFail
    ELSE LET k == ParseScalar(toks[i])
             v == ParseScalar(toks[i + 2])
         IN  IF ~(IsStringTok(toks[i]) /\ k.ok /\ IsKeyText(k.val)
                  /\ toks[i + 1] = Colon /\ v.ok)
             THEN ParseFail
             ELSE LET acc2 == (KeyOf(k.val) :> v.val) @@ acc
                  IN  IF toks[i + 3] = RBrace
                      THEN [ok |-> TRUE, val |-> acc2, next |-> i + 4]
                      ELSE IF toks[i + 3] = Comma
                      THEN ParseMembers(toks, i + 4, acc2)
                      ELSE ParseFail

\* the elements of an array from toks[i] on, each an object
RECURSIVE ParseElems(_, _, _)
ParseElems(toks, i, acc) ==
    IF i + 1 > Len(toks) \/ toks[i] # LBrace THEN ParseFail
    ELSE LET o == ParseMembers(toks, i + 1, <<>>)
         IN  IF ~o.ok \/ o.next > Len(toks) THEN ParseFail
             ELSE IF toks[o.next] = RBracket
             THEN [ok |-> TRUE, val |-> Append(acc, o.val), next |-> o.next + 1]
             ELSE IF toks[o.next] = Comma
             THEN ParseElems(toks, o.next + 1, Append(acc, o.val))
             ELSE ParseFail

\* json.load of the documents that occur: an array of book objects, or the
\* empty object; anything left after the document is "Extra data"
ParseJson(toks) ==
    IF Len(toks) < 2 THEN ParseFail
    ELSE IF toks = <<LBrace, RBrace>>
    THEN [ok |-> TRUE, val |-> EmptyDict, next |-> 3]
    ELSE IF toks = <<LBracket, RBracket>>
    THEN [ok |-> TRUE, val |-> EmptyList, next |-> 3]
    ELSE IF toks[1] # LBracket THEN ParseFail
    ELSE LET r == ParseElems(toks, 2, <<>>)
         IN  IF r.ok /\ r.next = Len(toks) + 1
             THEN [ok |-> TRUE, val |-> [EmptyList EXCEPT !.items = r.val],
                   next |-> r.next]
             ELSE ParseFail

-----------------------------------------------------------------------------
(* Files, load_library and save_library *)

MissingFile == [kind |-> "missing", toks |-> <<>>]

\* bytes that the text-mode open() cannot decode
BinaryFile == [kind |-> "binary", toks |-> <<>>]

TextFile(toks) == [kind |-> "text", toks |-> toks]

\* no instance exists (the constructor raised)
NoLibrary == [kind |-> "none", items |-> <<>>]

\* load_library: FileNotFoundError and JSONDecodeError give []; the
\* UnicodeDecodeError of an undecodable file is not caught
load_library(file) ==
    IF file.kind = "missing" THEN [err |-> "none", val |-> EmptyList]
    ELSE IF file.kind = "binary" THEN [err |-> "UnicodeDecodeError", val |-> NoLibrary]
    ELSE LET r == ParseJson(file.toks)
         IN  IF r.ok THEN [err |-> "none", val |-> r.val]
             ELSE [err |-> "none", val |-> EmptyList]

\* How a save can end: "none" completes; open_* fails in open() before the
\* file is touched; partial_* fails in json.dump with all but the last token
\* written.
Faults == {"none", "open_primary", "partial_primary", "open_backup", "partial_backup"}

Partial(toks) == SubSeq(toks, 1, Len(toks) - 1)

\* Variant: the second `with` block is missing, no backup is written
save_library_NoBackup(lib, p, b, fault) ==
    IF fault \in {"open_primary", "partial_primary"}
    THEN [primary |-> IF fault = "open_primary" THEN p ELSE TextFile(Partial(Dump(lib))),
          backup |-> b, err |-> "OSError"]
    ELSE [primary |-> TextFile(Dump(lib)), backup |-> b, err |-> "none"]

\* Variant: the backup is written before the primary
save_library_BackupFirst(lib, p, b, fault) ==
    LET doc == Dump(lib)
    IN  CASE fault = "open_backup" ->
               [primary |-> p, backup |-> b, err |-> "OSError"]
          [] fault = "partial_backup" ->
               [primary |-> p, backup |-> TextFile(Partial(doc)), err |-> "OSError"]
          [] fault = "open_primary" ->
               [primary |-> p, backup |-> TextFile(doc), err |-> "OSError"]
          [] fault = "partial_primary" ->
               [primary |-> TextFile(Partial(doc)), backup |-> TextFile(doc),
                err |-> "OSError"]
          [] OTHER ->
               [primary |-> TextFile(doc), backup |-> TextFile(doc), err |-> "none"]

\* Variant: the files are opened in append mode "a" instead of "w"
save_library_Append(lib, p, b, fault) ==
    LET doc == Dump(lib)
    IN  CASE fault = "open_primary" ->
               [primary |-> p, backup |-> b, err |-> "OSError"]
          [] fault = "partial_primary" ->
               [primary |-> TextFile(p.toks \o Partial(doc)), backup |-> b,
                err |-> "OSError"]
          [] fault = "open_backup" ->
               [primary |-> TextFile(p.toks \o doc), backup |-> b, err |-> "OSError"]
          [] fault = "partial_backup" ->
               [primary |-> TextFile(p.toks \o doc),
                backup |-> TextFile(b.toks \o Partial(doc)), err |-> "OSError"]
          [] OTHER ->
               [primary |-> TextFile(p.toks \o doc), backup |-> TextFile(b.toks \o doc),
                err |-> "none"]

\* save_library: the primary is written first, then the backup; an OSError
\* leaves save_library at the statement that raised it
save_library(lib, p, b, fault) ==
    LET doc == Dump(lib)
    IN  CASE fault = "open_primary" ->
               [primary |-> p, backup |-> b, err |-> "OSError"]
          [] fault = "partial_primary" ->
               [primary |-> TextFile(Partial(doc)), backup |-> b, err |-> "OSError"]
          [] fault = "open_backup" ->
               [primary |-> TextFile(doc), backup |-> b, err |-> "OSError"]
          [] fault = "partial_backup" ->
               [primary |-> TextFile(doc), backup |-> TextFile(Partial(doc)),
                err |-> "OSError"]
          [] OTHER ->
               [primary |-> TextFile(doc), backup |-> TextFile(doc), err |-> "none"]

-----------------------------------------------------------------------------
(* What the user types, and the files found at startup *)

Book(t, a, y, g, r) ==
    [title |-> t, author |-> a, year |-> y, genre |-> g, read |-> r]

\* titles typed into add_book
AddTitles == {<<"D","u">>, <<"I","\"">>}

\* titles typed into remove_book and mark_as_read_unread
LookupTitles == {<<"d","U">>, <<"I","\"">>}

Authors == {<<"S","\\","u">>}

Genres == {<<"S","F">>}

YearInputs == {<<"9","9","9">>, <<"1","0","0","0">>, <<" ","9","9","9","9">>,
               <<"1","0","0","0","0">>, <<"-","1","0","0","0">>,
               <<"1","e","3">>, <<>>}

\* answers to the yes/no prompts
YesNoInputs == {<<" ","Y","e","s"," ">>, <<"n","o">>, <<"y">>}

Queries == {<<"D">>, <<"s">>, <<>>}

SearchChoices == {<<"1">>, <<"2">>}

MenuChoices == {<<"8">>}

\* a library written by an earlier session: four books, one of them read,
\* two pairs of titles that differ at most in case
SavedBooks ==
    <<Book(<<"D","u">>,  <<"S","\\","u">>, 1000, <<"S","F">>, FALSE),
      Book(<<"I","\"">>, <<"S","\\","u">>, 9999, <<"S","F">>, TRUE),
      Book(<<"d","U">>,  <<"S","\\","u">>, 1000, <<"S","F">>, FALSE),
      Book(<<"I","\"">>, <<"S","\\","u">>, 1000, <<"S","F">>, FALSE)>>

SavedDoc == Dump([kind |-> "list", items |-> SavedBooks])

\* the primary and backup file a new process can find
StartDisks ==
    {[primary |-> MissingFile, backup |-> MissingFile],
     [primary |-> TextFile(SavedDoc), backup |-> TextFile(SavedDoc)],
     [primary |-> TextFile(Partial(SavedDoc)), backup |-> TextFile(SavedDoc)],
     [primary |-> TextFile(<<>>), backup |-> MissingFile],
     [primary |-> TextFile(<<LBrace, RBrace>>), backup |-> MissingFile],
     [primary |-> BinaryFile, backup |-> MissingFile]}

-----------------------------------------------------------------------------
(* The process *)

Out(msg) == [msg |-> msg, books |-> <<>>, total |-> 0, tenths |-> 0]

NoOutput == Out("")

NoPend == [title |-> <<>>, author |-> <<>>, year |-> 0]

YesText == <<"y","e","s">>

IsYes(input) == StrLower(StrStrip(input)) = YesText

\* book["title"].lower() == title.lower()
TitleIs(b, title) == StrLower(b.title) = StrLower(title)

\* Variant: only the first book of the title is dropped
Removed_FirstOnly(lib, title) ==
    LET found == {i \in 1..Len(lib.items) : TitleIs(lib.items[i], title)}
    IN  IF found = {} THEN lib
        ELSE LET n == CHOOSE i \in found : \A j \in found : i <= j
             IN  [lib EXCEPT !.items = SubSeq(@, 1, n - 1) \o SubSeq(@, n + 1, Len(@))]

\* remove_book's second comprehension: the books of any other title
Removed(lib, title) ==
    [lib EXCEPT !.items = SelectSeq(@, LAMBDA b : ~TitleIs(b, title))]

\* the position mark_as_read_unread's loop stops at, 0 when it runs out
FirstMatch(lib, title) ==
    LET found == {i \in 1..Len(lib.items) : TitleIs(lib.items[i], title)}
    IN  IF found = {} THEN 0 ELSE CHOOSE i \in found : \A j \in found : i <= j

\* book["read"] = not book["read"] on the book at position i
Flipped(lib, i) == [lib EXCEPT !.items[i].read = ~@]

\* __init__: self.library = self.load_library()
Start(disk) ==
    LET r == load_library(disk.primary)
    IN  /\ primary = disk.primary
        /\ backup = disk.backup
        /\ library = r.val
        /\ err = r.err
        /\ pc = IF r.err = "none" THEN "menu" ELSE "crashed"
        /\ pend = NoPend
        /\ out = NoOutput

Init == \E disk \in StartDisks : Start(disk)

\* self.save_library() and the rest of the handler: its last print and the
\* return to `then`, or the OSError that leaves the menu loop
SaveAnd(lib, msg, then) ==
    \E fault \in Faults :
        \E s \in {save_library(lib, primary, backup, fault)} :
            /\ primary' = s.primary
            /\ backup' = s.backup
            /\ err' = s.err
            /\ pc' = IF s.err = "none" THEN then ELSE "crashed"
            /\ out' = IF s.err = "none" THEN msg ELSE NoOutput

\* add_book up to the year prompt: title and author are read
AddStart(title, author) ==
    /\ pc = "menu"
    /\ Len(library.items) < MaxBooks
    /\ pc' = "add_year"
    /\ pend' = [title |-> title, author |-> author, year |-> 0]
    /\ out' = NoOutput
    /\ UNCHANGED <<library, primary, backup, err>>

\* Variant: the range test is only `year <= 9999`
AddYear_NoLowerBound(input) ==
    /\ pc = "add_year"
    /\ IF IntOk(input)
       THEN IF IntVal(input) <= 9999
            THEN /\ pc' = "add_rest"
                 /\ pend' = [pend EXCEPT !.year = IntVal(input)]
                 /\ out' = out
            ELSE /\ out' = Out("Invalid year! Please enter a 4-digit year.")
                 /\ UNCHANGED <<pc, pend>>
       ELSE /\ out' = Out("Invalid input! Please enter a valid 4-digit year.")
            /\ UNCHANGED <<pc, pend>>
    /\ UNCHANGED <<library, primary, backup, err>>

\* one turn of add_book's while loop
AddYear(input) ==
    /\ pc = "add_year"
    /\ IF IntOk(input)
       THEN IF 1000 <= IntVal(input) /\ IntVal(input) <= 9999
            THEN /\ pc' = "add_rest"
                 /\ pend' = [pend EXCEPT !.year = IntVal(input)]
                 /\ out' = out
            ELSE /\ out' = Out("Invalid year! Please enter a 4-digit year.")
                 /\ UNCHANGED <<pc, pend>>
       ELSE /\ out' = Out("Invalid input! Please enter a valid 4-digit year.")
            /\ UNCHANGED <<pc, pend>>
    /\ UNCHANGED <<library, primary, backup, err>>

\* add_book after the loop: genre and read status are read, the book is
\* appended and the library saved; a dict has no append
AddFinish(genre, readInput) ==
    /\ pc = "add_rest"
    /\ pend' = NoPend
    /\ IF library.kind = "list"
       THEN LET book == Book(pend.title, pend.author, pend.year, genre, IsYes(readInput))
            IN  \E lib2 \in {[library EXCEPT !.items = Append(@, book)]} :
                /\ library' = lib2
                /\ SaveAnd(lib2, Out("Book added successfully!"), "menu")
       ELSE /\ pc' = "crashed"
            /\ err' = "AttributeError"
            /\ out' = NoOutput
            /\ UNCHANGED <<library, primary, backup>>

\* Variant: the books are removed without looking at the answer
remove_book_NoConfirm(title, confirm) ==
    /\ pc = "menu"
    /\ LET matching == SelectSeq(library.items, LAMBDA b : TitleIs(b, title))
       IN  IF matching = <<>>
           THEN /\ out' = Out("Book not found!")
                /\ UNCHANGED <<library, primary, backup, pc, err>>
           ELSE \E lib2 \in {Removed(library, title)} :
                    /\ library' = lib2
                    /\ SaveAnd(lib2, Out("Book removed successfully!"), "menu")
    /\ UNCHANGED pend

\* remove_book
remove_book(title, confirm) ==
    /\ pc = "menu"
    /\ LET matching == SelectSeq(library.items, LAMBDA b : TitleIs(b, title))
       IN  IF matching = <<>>
           THEN /\ out' = Out("Book not found!")
                /\ UNCHANGED <<library, primary, backup, pc, err>>
           ELSE IF IsYes(confirm)
           THEN \E lib2 \in {Removed(library, title)} :
                    /\ library' = lib2
                    /\ SaveAnd(lib2, Out("Book removed successfully!"), "menu")
           ELSE /\ out' = Out("Book removal cancelled.")
                /\ UNCHANGED <<library, primary, backup, pc, err>>
    /\ UNCHANGED pend

\* Variant: the choice selects the field that is searched
search_book_ByChoice(choice, queryInput) ==
    /\ pc = "menu"
    /\ LET query == StrLower(queryInput)
           results == SelectSeq(library.items,
                          LAMBDA b : IF choice = <<"1">>
                                     THEN Contains(query, StrLower(b.title))
                                     ELSE Contains(query, StrLower(b.author)))
       IN  out' = IF results # <<>>
                  THEN [Out("results") EXCEPT !.books = results]
                  ELSE Out("No matching books found.")
    /\ UNCHANGED <<library, primary, backup, pc, pend, err>>

\* search_book: the choice is read and not used
search_book(choice, queryInput) ==
    /\ pc = "menu"
    /\ LET query == StrLower(queryInput)
           results == SelectSeq(library.items,
                          LAMBDA b : \/ Contains(query, StrLower(b.title))
                                     \/ Contains(query, StrLower(b.author)))
       IN  out' = IF results # <<>>
                  THEN [Out("results") EXCEPT !.books = results]
                  ELSE Out("No matching books found.")
    /\ UNCHANGED <<library, primary, backup, pc, pend, err>>

\* display_books
display_books ==
    /\ pc = "menu"
    /\ out' = IF library.items = <<>>
              THEN Out("Your library is empty.")
              ELSE [Out("books") EXCEPT !.books = library.items]
    /\ UNCHANGED <<library, primary, backup, pc, pend, err>>

\* f"{x:.1f}" of x = r / t * 100, in tenths: the nearest tenth, a tie going
\* to the even one (r / t * 100 is within 1e-13 of the exact quotient)
Tenths(r, t) ==
    LET q == (1000 * r) \div t
        m == (1000 * r) % t
    IN  IF 2 * m > t \/ (2 * m = t /\ q % 2 = 1) THEN q + 1 ELSE q

\* Variant: the quotient is taken with integer division
display_statistics_IntDiv ==
    /\ pc = "menu"
    /\ LET total_books == Len(library.items)
           read_books == Cardinality({i \in 1..total_books : library.items[i].read})
           percentage_read == IF total_books # 0
                              THEN (read_books \div total_books) * 1000 ELSE 0
       IN  out' = [Out("statistics") EXCEPT !.total = total_books,
                                            !.tenths = percentage_read]
    /\ UNCHANGED <<library, primary, backup, pc, pend, err>>

\* display_statistics
display_statistics ==
    /\ pc = "menu"
    /\ LET total_books == Len(library.items)
           read_books == Cardinality({i \in 1..total_books : library.items[i].read})
           percentage_read == IF total_books # 0
                              THEN Tenths(read_books, total_books) ELSE 0
       IN  out' = [Out("statistics") EXCEPT !.total = total_books,
                                            !.tenths = percentage_read]
    /\ UNCHANGED <<library, primary, backup, pc, pend, err>>

\* Variant: the loop does not return at the first match, every book of
\* the title is flipped
mark_as_read_unread_AllMatches(title) ==
    /\ pc = "menu"
    /\ LET i == FirstMatch(library, title)
       IN  IF i # 0
           THEN \E lib2 \in {[library EXCEPT !.items =
                                 [j \in 1..Len(@) |->
                                    IF TitleIs(@[j], title)
                                    THEN [@[j] EXCEPT !.read = ~@] ELSE @[j]]]} :
                    /\ library' = lib2
                    /\ SaveAnd(lib2, [Out("Updated") EXCEPT !.books = <<lib2.items[i]>>],
                               "menu")
           ELSE /\ out' = Out("Book not found!")
                /\ UNCHANGED <<library, primary, backup, pc, err>>
    /\ UNCHANGED pend

\* mark_as_read_unread: the first book of that title is flipped
mark_as_read_unread(title) ==
    /\ pc = "menu"
    /\ LET i == FirstMatch(library, title)
       IN  IF i # 0
           THEN \E lib2 \in {Flipped(library, i)} :
                    /\ library' = lib2
                    /\ SaveAnd(lib2, [Out("Updated") EXCEPT !.books = <<lib2.items[i]>>],
                               "menu")
           ELSE /\ out' = Out("Book not found!")
                /\ UNCHANGED <<library, primary, backup, pc, err>>
    /\ UNCHANGED pend

\* menu choice 7: save and leave the loop
Exit ==
    /\ pc = "menu"
    /\ SaveAnd(library, Out("Library saved to file. Goodbye!"), "exited")
    /\ UNCHANGED <<library, pend>>

\* any other menu choice
InvalidChoice(choice) ==
    /\ pc = "menu"
    /\ out' = Out("Invalid choice. Please try again.")
    /\ UNCHANGED <<library, primary, backup, pc, pend, err>>

\* the program is run again after it exited: a fresh instance on the same files
Restart ==
    /\ pc = "exited"
    /\ LET r == load_library(primary)
       IN  /\ library' = r.val
           /\ err' = r.err
           /\ pc' = IF r.err = "none" THEN "menu" ELSE "crashed"
    /\ pend' = NoPend
    /\ out' = NoOutput
    /\ UNCHANGED <<primary, backup>>

Next ==
    \/ \E t \in AddTitles, a \in Authors : AddStart(t, a)
    \/ \E y \in YearInputs : AddYear(y)
    \/ \E g \in Genres, r \in YesNoInputs : AddFinish(g, r)
    \/ \E t \in LookupTitles, c \in YesNoInputs : remove_book(t, c)
    \/ \E c \in SearchChoices, q \in Queries : search_book(c, q)
    \/ display_books
    \/ display_statistics
    \/ \E t \in LookupTitles : mark_as_read_unread(t)
    \/ Exit
    \/ \E c \in MenuChoices : InvalidChoice(c)
    \/ Restart

Spec == Init /\ [][Next]_vars

-----------------------------------------------------------------------------
(* Vocabulary of the properties *)

\* the file that holds exactly the library
FileOf(lib) == TextFile(Dump(lib))

\* the library is a Catalog: an ordered list of book records
IsCatalog(lib) == lib.kind = "list"

\* the file parses as an ordered array of book records
IsCatalogFile(file) ==
    /\ file.kind = "text"
    /\ ParseJson(file.toks).ok
    /\ ParseJson(file.toks).val.kind = "list"

\* the two texts are equal up to the case of their letters
SameTitle(s, t) ==
    /\ Len(s) = Len(t)
    /\ \A i \in 1..Len(s) : LowerChar(s[i]) = LowerChar(t[i])

\* q occurs in s as a run of consecutive characters, up to case
OccursIn(q, s) ==
    \E i \in 0..(Len(s) - Len(q)) :
        \A k \in 1..Len(q) : LowerChar(s[i + k]) = LowerChar(q[k])

\* the k-th smallest member of a set of positions
KthOf(S, k) == CHOOSE i \in S : Cardinality({j \in S : j <= i}) = k

\* the items at the positions S, in their order
Pick(items, S) == [k \in 1..Cardinality(S) |-> items[KthOf(S, k)]]

\* the handlers that end with "saved" having been printed
SavedMsgs == {"Book added successfully!", "Book removed successfully!", "Updated"}

FilesUnchanged == primary' = primary /\ backup' = backup

-----------------------------------------------------------------------------
(* C1: whenever add_book, a confirmed remove_book or mark_as_read_unread on  *)
(* a matching title has returned, the primary file and the backup file both *)
(* hold exactly the in-memory library: the same records in the same order.  *)
C1_FilesMirrorLibrary ==
    out.msg \in SavedMsgs =>
        /\ pc = "menu"
        /\ primary = FileOf(library)
        /\ backup = FileOf(library)

C1_Witness ==
    /\ out.msg = "Updated"
    /\ Len(library.items) = 4
    /\ primary = FileOf(library)
    /\ primary # TextFile(SavedDoc)

(* C2 as stated: every step leaves both files holding the new library or    *)
(* leaves both unchanged, a failed write included.                          *)
C2_AtomicMirror ==
    [][\/ FilesUnchanged
       \/ primary' = FileOf(library') /\ backup' = FileOf(library')]_vars

(* C2 as amended: save writes the primary and then the backup; a save that  *)
(* returns leaves both holding the new library; a save that fails may leave *)
(* the primary new or cut short beside the old backup, and changes the      *)
(* backup only once the primary holds the whole new library.                *)
C2_PrimaryThenBackup ==
    [][/\ (backup' # backup => primary' = FileOf(library'))
       /\ (primary' # primary /\ primary' # FileOf(library')
             => backup' = backup /\ err' = "OSError")
       /\ (~FilesUnchanged /\ err' = "none"
             => primary' = FileOf(library') /\ backup' = FileOf(library'))]_vars

C2_Witness ==
    /\ pc = "crashed"
    /\ err = "OSError"
    /\ primary = FileOf(library)
    /\ backup.kind = "text"
    /\ backup # primary
    /\ IsCatalogFile(backup)

(* C3: what a fresh instance loads from the primary file after a save that  *)
(* returned is the saved library: the same records, field by field, in the  *)
(* same order.                                                              *)
C3_RoundTrip ==
    [][/\ (pc = "exited" /\ pc' # "exited"
             => pc' = "menu" /\ err' = "none" /\ library' = library)
       /\ (out'.msg \in SavedMsgs
             => load_library(primary') = [err |-> "none", val |-> library'])]_vars

C3_Witness ==
    /\ pc = "menu"
    /\ out = NoOutput
    /\ Len(library.items) = 2
    /\ \E i \in 1..2 : library.items[i].title = <<"I", "\"">> /\ library.items[i].read

\* a freshly constructed instance, or the constructor's failure
JustStarted ==
    /\ out = NoOutput
    /\ \/ pc = "menu"
       \/ pc = "crashed" /\ err = "UnicodeDecodeError"

(* C4: a fresh instance on a primary file that is missing or is not an      *)
(* array of book records has an empty Catalog, and its constructor did not  *)
(* raise.                                                                   *)
C4_LoadFallsBackToEmpty ==
    JustStarted /\ ~IsCatalogFile(primary) =>
        pc = "menu" /\ err = "none" /\ library = EmptyList

\* int() accepts the text and the number is a 4-digit year
IsValidYear(input) == IntOk(input) /\ IntVal(input) \in 1000..9999

(* C5: in add_book no year input that is not an integer in [1000, 9999] is  *)
(* accepted, and the Catalog and both files are as they were across every   *)
(* rejected input; once a valid year is given, one record with that year is *)
(* appended at the end of the Catalog, the earlier records as they were.    *)
C5_AddYearGate ==
    [][/\ pc = "add_year" =>
            /\ library' = library /\ FilesUnchanged
            /\ \A y \in YearInputs : AddYear(y) =>
                 /\ pc' = (IF IsValidYear(y) THEN "add_rest" ELSE "add_year")
                 /\ IsValidYear(y) => pend'.year = IntVal(y)
                 /\ ~IsValidYear(y) => out'.msg # "" /\ pend' = pend
       /\ pc = "menu" /\ pc' = "add_year" => library' = library /\ FilesUnchanged
       /\ pc = "add_rest" /\ IsCatalog(library) =>
            /\ pend.year \in 1000..9999
            /\ Len(library'.items) = Len(library.items) + 1
            /\ SubSeq(library'.items, 1, Len(library.items)) = library.items
            /\ library'.items[Len(library'.items)].year = pend.year
            /\ library'.items[Len(library'.items)].title = pend.title
            /\ library'.items[Len(library'.items)].author = pend.author]_vars

C5_Witness ==
    /\ pc = "add_rest"
    /\ out.msg = "Invalid year! Please enter a 4-digit year."
    /\ pend.year = 9999
    /\ Len(library.items) = 1

(* C6: a confirmed remove_book(title) removes every record of that title up *)
(* to case: none is left, the other records stay in their order, and the    *)
(* result is what both files hold when it returns.                          *)
C6_RemoveAllMatches ==
    [][\A t \in LookupTitles, c \in YesNoInputs :
         /\ pc = "menu"
         /\ IsYes(c)
         /\ \E i \in 1..Len(library.items) : SameTitle(library.items[i].title, t)
         /\ remove_book(t, c)
         => /\ \A i \in 1..Len(library'.items) : ~SameTitle(library'.items[i].title, t)
            /\ library'.items =
                 Pick(library.items,
                      {i \in 1..Len(library.items) :
                          ~SameTitle(library.items[i].title, t)})
            /\ err' = "none" =>
                 /\ out'.msg = "Book removed successfully!"
                 /\ primary' = FileOf(library')
                 /\ backup' = FileOf(library')]_vars

C6_Witness ==
    /\ out.msg = "Book removed successfully!"
    /\ library.items = <<SavedBooks[2], SavedBooks[4]>>
    /\ primary = FileOf(library)

(* C7: remove_book(title) leaves the Catalog and both files as they were    *)
(* when no record has the title up to case (it reports not found) and when  *)
(* records match but the answer is not yes (it reports the cancellation).   *)
C7_RemoveLeavesAlone ==
    [][\A t \in LookupTitles, c \in YesNoInputs :
         LET none == \A i \in 1..Len(library.items) :
                         ~SameTitle(library.items[i].title, t)
         IN  /\ pc = "menu"
             /\ none \/ ~IsYes(c)
             /\ remove_book(t, c)
             => /\ library' = library /\ FilesUnchanged
                /\ pc' = "menu" /\ err' = "none"
                /\ out' = IF none THEN Out("Book not found!")
                          ELSE Out("Book removal cancelled.")]_vars

C7_Witness ==
    /\ out.msg = "Book removal cancelled."
    /\ library.items = SavedBooks
    /\ primary = TextFile(SavedDoc)
    /\ backup = TextFile(SavedDoc)

\* the first position whose title is t up to case, 0 when there is none
FirstOfTitle(items, t) ==
    IF \E i \in 1..Len(items) : SameTitle(items[i].title, t)
    THEN CHOOSE i \in 1..Len(items) :
            /\ SameTitle(items[i].title, t)
            /\ \A j \in 1..(i - 1) : ~SameTitle(items[j].title, t)
    ELSE 0

(* C8: mark_as_read_unread(title) flips the read flag of the first record   *)
(* of that title up to case and of no other, later records of the title     *)
(* included, and keeps the order; doing it twice gives the Catalog back;    *)
(* with no such record it changes nothing and reports not found.            *)
C8_ToggleFirstMatch ==
    [][\A t \in LookupTitles :
         pc = "menu" /\ mark_as_read_unread(t) =>
            LET n == FirstOfTitle(library.items, t)
            IN  /\ n = 0 =>
                     /\ library' = library /\ FilesUnchanged
                     /\ out' = Out("Book not found!") /\ pc' = "menu"
                /\ n # 0 =>
                     /\ Len(library'.items) = Len(library.items)
                     /\ \A j \in 1..Len(library.items) :
                          /\ library'.items[j].title = library.items[j].title
                          /\ library'.items[j].author = library.items[j].author
                          /\ library'.items[j].year = library.items[j].year
                          /\ library'.items[j].genre = library.items[j].genre
                          /\ library'.items[j].read = (library.items[j].read # (j = n))
                     /\ FirstMatch(library', t) = n
                     /\ Flipped(library', FirstMatch(library', t)) = library
                     /\ err' = "none" =>
                          /\ out'.msg = "Updated"
                          /\ primary' = FileOf(library')
                          /\ backup' = FileOf(library')]_vars

C8_Witness ==
    /\ out.msg = "Updated"
    /\ Len(library.items) = 4
    /\ \A j \in 1..4 : library.items[j].title = SavedBooks[j].title
    /\ library.items[1].read
    /\ ~library.items[2].read
    /\ ~library.items[3].read
    /\ ~library.items[4].read

(* C9: search_book returns, in Catalog order, exactly the records whose     *)
(* title or author contains the query up to case, whichever field was       *)
(* chosen; with none it reports no matches; it changes neither the Catalog  *)
(* nor the files.                                                           *)
C9_SearchBothFields ==
    [][\A c \in SearchChoices, q \in Queries :
         pc = "menu" /\ search_book(c, q) =>
            LET hits == {i \in 1..Len(library.items) :
                            \/ OccursIn(q, library.items[i].title)
                            \/ OccursIn(q, library.items[i].author)}
            IN  /\ library' = library /\ FilesUnchanged /\ pc' = "menu"
                /\ out'.books = Pick(library.items, hits)
                /\ out'.msg = IF hits = {} THEN "No matching books found."
                              ELSE "results"]_vars

C9_Witness ==
    /\ out.msg = "results"
    /\ library.items = SavedBooks
    /\ out.books = <<SavedBooks[1], SavedBooks[3]>>

(* C10: display_statistics reports the number of records and, to one        *)
(* decimal, 100 * (records read) / (records), 0.0 for an empty Catalog: 4   *)
(* records with 1 read give 4 and 25.0; it does not change the Catalog.     *)
C10_Statistics ==
    [][pc = "menu" /\ display_statistics =>
         LET n == Len(library.items)
             r == Cardinality({i \in 1..n : library.items[i].read})
             d == 1000 * r - out'.tenths * n
         IN  /\ library' = library /\ FilesUnchanged /\ pc' = "menu"
             /\ out'.msg = "statistics"
             /\ out'.total = n
             /\ n = 0 => out'.tenths = 0
             /\ n # 0 => 2 * d <= n /\ 2 * d >= 0 - n
             /\ n = 4 /\ r = 1 => out'.tenths = 250]_vars

C10_Witness ==
    /\ out.msg = "statistics"
    /\ out.total = 4
    /\ out.tenths = 250
    /\ Cardinality({i \in 1..Len(library.items) : library.items[i].read}) = 1

=============================================================================
